---------------------------- MODULE Spec2Model ----------------------------
(***************************************************************************)
(* Model of src/notify.py, the stock trading alerter.                      *)
(*                                                                         *)
(* Text is a sequence of characters (one-character strings).  The two      *)
(* arrow emoji are single characters, written "U+1F53A" and "U+1F53B".     *)
(* A date is its proleptic Gregorian ordinal (date.toordinal()); the time  *)
(* of day of a datetime is never read by the program and is left out.      *)
(* A call that returns is [kind |-> "ok", ...]; a call that raises is      *)
(* [kind |-> "raise", exc |-> <exception class>].                          *)
(***************************************************************************)
EXTENDS Integers, Sequences, FiniteSets, TLC

VARIABLES
    pc,                \* main: the call of the loop body about to run
    i,                 \* main: 1-based position in zip(STOCKS, COMPANIES)
    now,               \* the date of datetime.now() in the stock's time zone
    stock_difference,  \* main: local
    stock_highlights,  \* main: local
    sms,               \* main: local
    requested,         \* bodies passed to client.messages.create, in order
    delivered,         \* bodies for which client.messages.create returned
    clients,           \* number of twilio Client objects constructed
    stdout,            \* what print() wrote, in order
    exc,               \* the exception that ended main, or "none"
    arg,               \* unit call: the arguments of the function under test
    ret                \* unit call: its outcome, Pending before the call

vars == <<pc, i, now, stock_difference, stock_highlights, sms, requested,
          delivered, clients, stdout, exc, arg, ret>>

mainVars == <<pc, i, now, stock_difference, stock_highlights, sms, requested,
              delivered, clients, stdout, exc>>

-----------------------------------------------------------------------------
(* Bounds of the model.                                                    *)

FirstDay == 738886      \* first date of the window of "today"s (2024-01-01)
NumDays == 14           \* length of that window: two full weeks
ShiftLo == 2            \* unit calls of the resolver use days >= -ShiftLo
ShiftHi == 4            \* ... and days <= ShiftHi
SeriesSpan == 6         \* the price series reaches this many days back
MaxFeed == 4            \* the news provider ranks at most this many articles
MaxDescLen == 3         \* unit calls of create_sms: length of a description
MaxMsgLen == 3          \* unit calls of send_message: length of a message
PriceLo == 9950         \* unit calls of the price change: closes from
PriceSpan == 60         \* PriceLo to PriceLo + PriceSpan, in units of 1/10000

Days == FirstDay .. (FirstDay + NumDays - 1)

-----------------------------------------------------------------------------
(* Outcomes of calls.                                                      *)

Pending == [kind |-> "pending"]
Ok(v) == [kind |-> "ok", value |-> v]
Raise(e) == [kind |-> "raise", exc |-> e]
ReturnsNone == [kind |-> "none"]

-----------------------------------------------------------------------------
(* datetime                                                                *)

\* datetime.weekday(): Monday is 0 and Sunday is 6; ordinal 1 is a Monday.
weekday(d) == (d + 6) % 7

\* stock_time - timedelta(days=n)
MinusDays(stock_time, n) == stock_time - n

NoWeekendShift(stock_time, days) ==
    IF days < 1 \/ days > 2
    THEN Raise("ValueError")
    ELSE Ok(MinusDays(stock_time, days))

TuesdayShift(stock_time, days) ==
    IF days < 1 \/ days > 2
    THEN Raise("ValueError")
    ELSE IF (2 <= weekday(stock_time) /\ weekday(stock_time) <= 5)
            \/ weekday(stock_time) = 1
    THEN Ok(MinusDays(stock_time, days))
    ELSE IF weekday(stock_time) = 0 \/ weekday(stock_time) = 1
    THEN Ok(MinusDays(stock_time, days + 2))
    ELSE IF weekday(stock_time) = 6
    THEN Ok(MinusDays(stock_time, days + 1))
    ELSE ReturnsNone

LaxRangeShift(stock_time, days) ==
    IF days < 0 \/ days > 2
    THEN Raise("ValueError")
    ELSE IF (2 <= weekday(stock_time) /\ weekday(stock_time) <= 5)
            \/ (weekday(stock_time) = 1 /\ days = 1)
    THEN Ok(MinusDays(stock_time, days))
    ELSE IF weekday(stock_time) = 0 \/ weekday(stock_time) = 1
    THEN Ok(MinusDays(stock_time, days + 2))
    ELSE IF weekday(stock_time) = 6
    THEN Ok(MinusDays(stock_time, days + 1))
    ELSE ReturnsNone

\* __get_date_days_shift(stock_time, days)
get_date_days_shift(stock_time, days) ==
    IF days < 1 \/ days > 2
    THEN Raise("ValueError")
    ELSE IF (2 <= weekday(stock_time) /\ weekday(stock_time) <= 5)
            \/ (weekday(stock_time) = 1 /\ days = 1)
    THEN Ok(MinusDays(stock_time, days))
    ELSE IF weekday(stock_time) = 0 \/ weekday(stock_time) = 1
    THEN Ok(MinusDays(stock_time, days + 2))
    ELSE IF weekday(stock_time) = 6
    THEN Ok(MinusDays(stock_time, days + 1))
    ELSE ReturnsNone

-----------------------------------------------------------------------------
(* Text and numbers.                                                       *)

Min(S) == CHOOSE x \in S : \A y \in S : x <= y

Take(s, n) == SubSeq(s, 1, IF Len(s) < n THEN Len(s) ELSE n)

DigitChars == <<"0", "1", "2", "3", "4", "5", "6", "7", "8", "9">>

IsDigit(c) == \E k \in 1..10 : DigitChars[k] = c

DigitVal(c) == (CHOOSE k \in 1..10 : DigitChars[k] = c) - 1

RECURSIVE DigitsVal(_)
DigitsVal(s) ==
    IF s = <<>> THEN 0
    ELSE 10 * DigitsVal(SubSeq(s, 1, Len(s) - 1)) + DigitVal(s[Len(s)])

RECURSIVE NatStr(_)
\* the decimal digits of a natural number
NatStr(n) ==
    IF n < 10 THEN <<DigitChars[n + 1]>>
    ELSE NatStr(n \div 10) \o <<DigitChars[(n % 10) + 1]>>

\* Prices are decimal numbers with at most four places, kept in units of
\* 1/10000; the binary rounding error of a Python float is not modelled.

\* whether float(s) accepts s as an unsigned decimal "ddd.dddd"
IsDecimal(s) ==
    \E p \in 1..Len(s) :
        /\ s[p] = "."
        /\ p > 1
        /\ Len(s) - p <= 4
        /\ \A k \in (1..Len(s)) \ {p} : IsDigit(s[k])

\* float(s) for such a string, in units of 1/10000
float(s) ==
    LET p == CHOOSE q \in 1..Len(s) : s[q] = "."
        frac == SubSeq(s, p + 1, Len(s))
        pad == [k \in 1..4 |-> IF k <= Len(frac) THEN frac[k] ELSE "0"]
    IN  DigitsVal(SubSeq(s, 1, p - 1)) * 10000 + DigitsVal(pad)

\* n / d rounded to the nearest integer, ties to the even one (d > 0); this
\* is what round(x, 2) does to the hundredths of the exact value x
RoundHalfEven(n, d) ==
    LET q == n \div d
        r == n - q * d
    IN  IF 2 * r < d THEN q
        ELSE IF 2 * r > d THEN q + 1
        ELSE IF q % 2 = 0 THEN q ELSE q + 1

\* A float with two decimal places: sign and magnitude in hundredths, so
\* that -0.0 and 0.0 differ as they do in Python.  n is the value in
\* hundredths and neg the sign it keeps when n is zero.
Float2(neg, n) == [neg |-> n < 0 \/ (n = 0 /\ neg), mag |-> IF n < 0 THEN -n ELSE n]

\* x > 0 for such a float
IsPositive(x) == ~x.neg /\ x.mag > 0

\* str(x) of such a float (repr: shortest digits, at least one decimal)
FloatStr(x) ==
    (IF x.neg THEN <<"-">> ELSE <<>>)
    \o NatStr(x.mag \div 100) \o <<".">>
    \o (IF x.mag % 10 = 0
        THEN <<DigitChars[((x.mag % 100) \div 10) + 1]>>
        ELSE <<DigitChars[((x.mag % 100) \div 10) + 1], DigitChars[(x.mag % 10) + 1]>>)

-----------------------------------------------------------------------------
(* Constants of the program.                                               *)

STOCKS == <<
    <<"T", "S", "L", "A">>,
    <<"F", "B">>,
    <<"S", "I", "E", "G", "Y">>,
    <<"A", "A", "P", "L">>,
    <<"A", "M", "Z", "N">> >>

COMPANIES == <<
    <<"T", "e", "s", "l", "a", " ", "I", "n", "c">>,
    <<"F", "a", "c", "e", "b", "o", "o", "k", " ", "I", "n", "c">>,
    <<"S", "I", "E", "M", "E", "N", "S", " ", "A", "G">>,
    <<"A", "p", "p", "l", "e", " ", "I", "n", "c">>,
    <<"A", "m", "a", "z", "o", "n", ".", "c", "o", "m", " ", "I", "n", "c">> >>

\* zip(STOCKS, COMPANIES): pairs by position, as long as the shorter list
zip(a, b) ==
    [k \in 1..(IF Len(a) < Len(b) THEN Len(a) ELSE Len(b)) |-> <<a[k], b[k]>>]

UpArrow == "U+1F53A"
DownArrow == "U+1F53B"

-----------------------------------------------------------------------------
(* strftime("%Y-%m-%d")                                                    *)

\* year, month and day of a date ordinal (proleptic Gregorian calendar)
civil(ord) ==
    LET z == ord + 305
        era == z \div 146097
        doe == z - era * 146097
        yoe == (doe - (doe \div 1460) + (doe \div 36524) - (doe \div 146096)) \div 365
        doy == doe - (365 * yoe + (yoe \div 4) - (yoe \div 100))
        mp == (5 * doy + 2) \div 153
        m == IF mp < 10 THEN mp + 3 ELSE mp - 9
    IN  [year |-> yoe + era * 400 + (IF m <= 2 THEN 1 ELSE 0),
         month |-> m,
         day |-> doy - ((153 * mp + 2) \div 5) + 1]

\* n in decimal, zero-padded to w digits
Pad(n, w) ==
    LET d == NatStr(n)
    IN  [k \in 1..(IF Len(d) < w THEN w - Len(d) ELSE 0) |-> "0"] \o d

strftime(d) ==
    LET c == civil(d)
    IN  Pad(c.year, 4) \o <<"-">> \o Pad(c.month, 2) \o <<"-">> \o Pad(c.day, 2)

-----------------------------------------------------------------------------
(* The price provider.                                                     *)

\* the closes of one week, Monday to Friday
WeekCloses == <<
    <<"1", "0", "2", ".", "0", "0", "0", "0">>,
    <<"1", "0", "1", ".", "5", "0", "0", "0">>,
    <<"9", "9", ".", "2", "5", "0", "0">>,
    <<"9", "8", ".", "0", "0", "0", "0">>,
    <<"1", "0", "0", ".", "0", "0", "0", "0">> >>

\* The "Time Series (Daily)" of a response received on date today: one
\* entry for each Monday-to-Friday date of the last SeriesSpan days that is
\* not in gaps (market holidays, provider gaps), keyed by its ISO date.
TimeSeriesDaily(today, gaps) ==
    LET dates == {d \in (today - SeriesSpan)..today : weekday(d) <= 4 /\ d \notin gaps}
    IN  [key \in {strftime(d) : d \in dates} |->
            LET d == CHOOSE e \in dates : strftime(e) = key
            IN  [close |-> WeekCloses[weekday(d) + 1]]]

\* response of requests.get: the HTTP status and, when it is a success, the
\* JSON body; the series is complete or lacks one date
PriceResponses(today) ==
    {[ok |-> FALSE, series |-> <<>>]}
    \cup {[ok |-> TRUE, series |-> TimeSeriesDaily(today, {})]}
    \cup {[ok |-> TRUE, series |-> TimeSeriesDaily(today, {gap})] :
            gap \in (today - SeriesSpan)..today}

-----------------------------------------------------------------------------
(* get_stock_difference                                                    *)

OlderCloseChange(yesterday_close, two_days_ago_close) ==
    LET different == RoundHalfEven(yesterday_close - two_days_ago_close, 100)
    IN  IF two_days_ago_close = 0
        THEN Raise("ZeroDivisionError")
        ELSE Ok(Float2(yesterday_close < two_days_ago_close,
                       RoundHalfEven(different * 1000000, two_days_ago_close)))

\* lines 73-74: the two closes are floats, in units of 1/10000
\*   different = round(yesterday_close - two_days_ago_close, 2)
\*   return round(different * 100 / yesterday_close, 2)
percent_change(yesterday_close, two_days_ago_close) ==
    LET different == RoundHalfEven(yesterday_close - two_days_ago_close, 100)
    IN  IF yesterday_close = 0
        THEN Raise("ZeroDivisionError")
        ELSE Ok(Float2(yesterday_close < two_days_ago_close,
                       RoundHalfEven(different * 1000000, yesterday_close)))

\* lines 67-74, given the two "4. close" strings of the series
close_difference(yesterday_str, two_days_ago_str) ==
    IF ~IsDecimal(yesterday_str) \/ ~IsDecimal(two_days_ago_str)
    THEN Raise("ValueError")
    ELSE percent_change(float(yesterday_str), float(two_days_ago_str))

\* lines 58-74, given the response and the stock time
get_stock_difference(response, stock_t) ==
    LET yesterday_stock_t == get_date_days_shift(stock_t, 1)
        two_days_ago_stock_t == get_date_days_shift(stock_t, 2)
        series == response.series
    IN  IF ~response.ok THEN Raise("HTTPError")
        ELSE IF yesterday_stock_t.kind = "raise" THEN yesterday_stock_t
        ELSE IF two_days_ago_stock_t.kind = "raise" THEN two_days_ago_stock_t
        ELSE IF yesterday_stock_t.kind = "none" THEN Raise("AttributeError")
        ELSE IF strftime(yesterday_stock_t.value) \notin DOMAIN series
        THEN Raise("KeyError")
        ELSE IF two_days_ago_stock_t.kind = "none" THEN Raise("AttributeError")
        ELSE IF strftime(two_days_ago_stock_t.value) \notin DOMAIN series
        THEN Raise("KeyError")
        ELSE close_difference(series[strftime(yesterday_stock_t.value)].close,
                              series[strftime(two_days_ago_stock_t.value)].close)

-----------------------------------------------------------------------------
(* get_news                                                                *)

FeedDescriptions == <<
    <<"<", "b", ">", "u", "p", "<", "/", "b", ">">>,
    <<"a", " ", "<", " ", "b">>,
    <<"x">>,
    <<"y">>,
    <<"<", "i", ">", "z">> >>

\* the k-th article the provider ranks for a query
FeedArticle(query, k) ==
    [title |-> query \o <<" ", DigitChars[(k % 10) + 1]>>,
     description |-> FeedDescriptions[((k - 1) % Len(FeedDescriptions)) + 1],
     url |-> <<"u", DigitChars[(k % 10) + 1]>>]

NewsResponses(query) ==
    {[ok |-> FALSE, articles |-> <<>>]}
    \cup {[ok |-> TRUE, articles |-> [k \in 1..n |-> FeedArticle(query, k)]] :
            n \in 0..MaxFeed}

\* lines 89-91
get_news(response) ==
    IF ~response.ok THEN Raise("HTTPError")
    ELSE Ok(Take(response.articles, 3))

-----------------------------------------------------------------------------
(* create_sms                                                              *)

\* Where the match of "<.*?>" that starts at the head of s ends, 0 when
\* there is none: '.' matches every character but the newline, and the
\* lazy '*?' stops at the first '>'.
match_end(s) ==
    LET ends == {q \in 2..Len(s) :
                    /\ s[q] = ">"
                    /\ \A k \in 2..(q - 1) : s[k] # "\n"}
    IN  IF s # <<>> /\ s[1] = "<" /\ ends # {} THEN Min(ends) ELSE 0

RECURSIVE re_sub(_)
\* re.sub(a_tags_regex, '', s): the matches are found left to right, none
\* overlapping another, and each is replaced by the empty string
re_sub(s) ==
    IF s = <<>> THEN <<>>
    ELSE IF match_end(s) > 0 THEN re_sub(SubSeq(s, match_end(s) + 1, Len(s)))
    ELSE <<Head(s)>> \o re_sub(Tail(s))

ArrowAtZero(change) ==
    IF ~change.neg THEN UpArrow ELSE DownArrow

\* the arrow of line 104: up if stock_difference > 0, else down
arrow(change) ==
    IF IsPositive(change) THEN UpArrow ELSE DownArrow

\* line 104
sms_header(change, company_name) ==
    company_name \o <<":", " ">> \o <<arrow(change)>>
    \o FloatStr(change) \o <<"%", "\n", "\n">>

\* lines 106-109: what one highlight adds to the message
sms_block(highlight) ==
    LET headline == <<"H", "e", "a", "d", "l", "i", "n", "e", ":", " ">> \o highlight.title \o <<"\n">>
        brief == re_sub(<<"B", "r", "i", "e", "f", ":", " ">> \o highlight.description \o <<"\n">>)
        url == <<"L", "i", "n", "k", ":", " ">> \o highlight.url \o <<"\n">>
    IN  headline \o brief \o url \o <<"\n">>

RECURSIVE sms_blocks(_)
sms_blocks(highlights) ==
    IF highlights = <<>> THEN <<>>
    ELSE sms_block(Head(highlights)) \o sms_blocks(Tail(highlights))

EmptyWithoutNews(change, highlights, company_name) ==
    IF highlights = <<>> THEN <<>>
    ELSE sms_header(change, company_name) \o sms_blocks(highlights)

\* lines 103-110
create_sms(change, highlights, company_name) ==
    sms_header(change, company_name) \o sms_blocks(highlights)

-----------------------------------------------------------------------------
(* send_message                                                            *)

SendEmptyToo(message, result) ==
    /\ clients' = clients + 1
    /\ requested' = Append(requested, message)
    /\ \/ /\ result = ReturnsNone
          /\ delivered' = Append(delivered, message)
          /\ stdout' = Append(stdout, "sms.status")
       \/ /\ result = Raise("TwilioRestException")
          /\ UNCHANGED <<delivered, stdout>>

\* send_message(message) ending with result: it returns None, or the call
\* of the SMS provider raises
send_message(message, result) ==
    IF message = <<>>
    THEN /\ result = ReturnsNone
         /\ UNCHANGED <<requested, delivered, clients, stdout>>
    ELSE /\ clients' = clients + 1
         /\ requested' = Append(requested, message)
         /\ \/ /\ result = ReturnsNone
               /\ delivered' = Append(delivered, message)
               /\ stdout' = Append(stdout, "sms.status")
            \/ /\ result = Raise("TwilioRestException")
               /\ UNCHANGED <<delivered, stdout>>

SendResults == {ReturnsNone, Raise("TwilioRestException")}

-----------------------------------------------------------------------------
(* main                                                                    *)

Unbound == [kind |-> "unbound"]
Idle == [kind |-> "idle"]

watchlist == zip(STOCKS, COMPANIES)

\* the loop variables of the current iteration; the symbol only goes into
\* the request to the price provider
stock_symbol_i == watchlist[i][1]
company_name_i == watchlist[i][2]

SwallowAndContinue(e) ==
    /\ exc' = exc
    /\ IF i < Len(watchlist)
       THEN i' = i + 1 /\ pc' = "get_stock_difference"
       ELSE i' = i /\ pc' = "done"

\* an exception raised in the loop body: nothing in main catches it
Propagate(e) ==
    /\ exc' = e
    /\ pc' = "raised"
    /\ i' = i

\* the end of the loop body: the next pair of the zip, or the end of main
NextIteration ==
    /\ exc' = exc
    /\ IF i < Len(watchlist)
       THEN i' = i + 1 /\ pc' = "get_stock_difference"
       ELSE i' = i /\ pc' = "done"

\* line 136: stock_difference = get_stock_difference(stock_symbol)
GetStockDifference ==
    /\ pc = "get_stock_difference"
    /\ \E response \in PriceResponses(now) :
          LET r == get_stock_difference(response, now)
          IN  /\ stdout' = IF response.ok
                           THEN Append(stdout, "stock_daily_data")
                           ELSE stdout
              /\ IF r.kind = "ok"
                 THEN /\ stock_difference' = r.value
                      /\ pc' = "get_news"
                      /\ UNCHANGED <<i, exc>>
                 ELSE /\ Propagate(r.exc)
                      /\ UNCHANGED stock_difference
    /\ UNCHANGED <<now, stock_highlights, sms, requested, delivered, clients,
                   arg, ret>>

\* line 137: stock_highlights = get_news(company_name)
GetNews ==
    /\ pc = "get_news"
    /\ \E response \in NewsResponses(company_name_i) :
          LET r == get_news(response)
          IN  IF r.kind = "ok"
              THEN /\ stock_highlights' = r.value
                   /\ pc' = "create_sms"
                   /\ UNCHANGED <<i, exc>>
              ELSE /\ Propagate(r.exc)
                   /\ UNCHANGED stock_highlights
    /\ UNCHANGED <<now, stock_difference, sms, requested, delivered, clients,
                   stdout, arg, ret>>

\* line 138: sms = create_sms(stock_difference, stock_highlights, company_name)
CreateSms ==
    /\ pc = "create_sms"
    /\ sms' = create_sms(stock_difference, stock_highlights, company_name_i)
    /\ pc' = "send_message"
    /\ UNCHANGED <<i, now, stock_difference, stock_highlights, requested,
                   delivered, clients, stdout, exc, arg, ret>>

\* line 139: send_message(sms)
SendMessage ==
    /\ pc = "send_message"
    /\ \E result \in SendResults :
          /\ send_message(sms, result)
          /\ IF result.kind = "raise"
             THEN Propagate(result.exc)
             ELSE NextIteration
    /\ UNCHANGED <<now, stock_difference, stock_highlights, sms, arg, ret>>

Init ==
    /\ pc = "get_stock_difference"
    /\ i = 1
    /\ now \in Days
    /\ stock_difference = Unbound
    /\ stock_highlights = Unbound
    /\ sms = Unbound
    /\ requested = <<>>
    /\ delivered = <<>>
    /\ clients = 0
    /\ stdout = <<>>
    /\ exc = "none"
    /\ arg = Idle
    /\ ret = Idle

Next == GetStockDifference \/ GetNews \/ CreateSms \/ SendMessage

Spec == Init /\ [][Next]_vars

-----------------------------------------------------------------------------
(* Unit calls: one function applied to arguments drawn from bounded sets,  *)
(* outside a run of main.                                                  *)

MainIdle ==
    /\ pc = "idle"
    /\ i = 1
    /\ now = FirstDay
    /\ stock_difference = Unbound
    /\ stock_highlights = Unbound
    /\ sms = Unbound
    /\ requested = <<>>
    /\ delivered = <<>>
    /\ clients = 0
    /\ stdout = <<>>
    /\ exc = "none"

\* all sequences over alphabet of length at most n
SeqsUpTo(alphabet, n) == UNION {[1..k -> alphabet] : k \in 0..n}

\* --- __get_date_days_shift ---

InitShift ==
    /\ MainIdle
    /\ arg \in [stock_time : Days, days : (-ShiftLo)..ShiftHi]
    /\ ret = Pending

ShiftCall ==
    /\ ret = Pending
    /\ ret' = get_date_days_shift(arg.stock_time, arg.days)
    /\ UNCHANGED <<arg, mainVars>>

SpecShift == InitShift /\ [][ShiftCall]_vars

\* --- lines 67-74 of get_stock_difference ---

\* a price in units of 1/10000 as the provider writes it: "d.dddd"
CloseStr(u) == NatStr(u \div 10000) \o <<".">> \o Pad(u % 10000, 4)

\* Whether the difference of two closes lies exactly between two hundredths.
\* There round() goes by the binary error of the float subtraction, which
\* exact decimals do not have: such pairs are left out of the unit calls.
RoundingTie(yesterday_close, two_days_ago_close) ==
    (yesterday_close - two_days_ago_close) % 100 = 50

SmallCloses == {CloseStr(u) : u \in {0} \cup (PriceLo..(PriceLo + PriceSpan))}

InitDifference ==
    /\ MainIdle
    /\ arg \in [yesterday_close : SmallCloses, two_days_ago_close : SmallCloses]
               \cup [yesterday_close : {WeekCloses[k] : k \in 1..5},
                     two_days_ago_close : {WeekCloses[k] : k \in 1..5}]
    /\ ~RoundingTie(float(arg.yesterday_close), float(arg.two_days_ago_close))
    /\ ret = Pending

DifferenceCall ==
    /\ ret = Pending
    /\ ret' = close_difference(arg.yesterday_close, arg.two_days_ago_close)
    /\ UNCHANGED <<arg, mainVars>>

SpecDifference == InitDifference /\ [][DifferenceCall]_vars

\* --- create_sms ---

\* percentage changes: 2.07, 2.0, 0.01, 0.0, -0.0, -1.5, -2.04
Changes ==
    {Float2(FALSE, c) : c \in {207, 200, 1, 0, -150, -204}} \cup {Float2(TRUE, 0)}

Descriptions == SeqsUpTo({"<", ">", "\n", "a"}, MaxDescLen)

\* the first highlight has any description, the others are the feed's
HighlightLists ==
    {[k \in 1..n |->
        IF k = 1
        THEN [FeedArticle(<<"T">>, 1) EXCEPT !.description = d]
        ELSE FeedArticle(<<"T">>, k)] :
            n \in 0..3, d \in Descriptions}

InitSms ==
    /\ MainIdle
    /\ arg \in [stock_difference : Changes,
                stock_highlights : HighlightLists,
                company_name : {COMPANIES[k] : k \in 1..Len(COMPANIES)}]
    /\ ret = Pending

SmsCall ==
    /\ ret = Pending
    /\ ret' = Ok(create_sms(arg.stock_difference, arg.stock_highlights,
                            arg.company_name))
    /\ UNCHANGED <<arg, mainVars>>

SpecSms == InitSms /\ [][SmsCall]_vars

\* --- send_message ---

InitSend ==
    /\ MainIdle
    /\ arg \in [message : SeqsUpTo({"a", " ", "\n"}, MaxMsgLen)]
    /\ ret = Pending

SendCall ==
    /\ ret = Pending
    /\ \E result \in SendResults :
          /\ send_message(arg.message, result)
          /\ ret' = result
    /\ UNCHANGED <<pc, i, now, stock_difference, stock_highlights, sms, exc, arg>>

SpecSend == InitSend /\ [][SendCall]_vars

-----------------------------------------------------------------------------
(* Claims about the Market-Day Resolver, under SpecShift.                  *)

IsTradingDay(d) == weekday(d) \in 0..4

\* the most recent Monday-to-Friday date strictly before d
PrevTradingDay(d) ==
    CHOOSE e \in (d - 7)..(d - 1) :
        IsTradingDay(e) /\ \A f \in (e + 1)..(d - 1) : ~IsTradingDay(f)

RECURSIVE TradingDaysBack(_, _)
\* the n-th most recent Monday-to-Friday date strictly before d
TradingDaysBack(d, n) ==
    IF n = 0 THEN d ELSE PrevTradingDay(TradingDaysBack(d, n - 1))

\* C1: for every weekday and every shift in {1, 2} the resolver returns the
\* shift-th most recent Monday-to-Friday date strictly before the current
\* date; the result is a Monday-to-Friday date, and the result for shift 2
\* is the trading day just before the result for shift 1.
C1_ShiftIsTradingDaysBack ==
    (ret # Pending /\ arg.days \in {1, 2}) =>
        /\ ret = Ok(TradingDaysBack(arg.stock_time, arg.days))
        /\ ret.kind = "ok" /\ IsTradingDay(ret.value)
        /\ arg.days = 2 =>
              ret.value = PrevTradingDay(get_date_days_shift(arg.stock_time, 1).value)

\* a Monday asked for two trading days back, across the weekend
C1_Witness ==
    /\ ret.kind = "ok"
    /\ weekday(arg.stock_time) = 0
    /\ arg.days = 2
    /\ weekday(ret.value) = 3

\* calendar days subtracted, by weekday (Monday first) and shift
DaysSubtracted == <<
    <<3, 4>>,   \* Monday: shift + 2
    <<1, 4>>,   \* Tuesday: 1 day, or 4 days for shift 2
    <<1, 2>>,   \* Wednesday
    <<1, 2>>,   \* Thursday
    <<1, 2>>,   \* Friday
    <<1, 2>>,   \* Saturday
    <<2, 3>> >> \* Sunday: shift + 1

\* C2: the resolver subtracts a number of calendar days fixed by (weekday,
\* shift): shift for Wed-Sat, 1 or 4 for Tue, shift + 2 for Mon, shift + 1
\* for Sun; every pair with shift in {1, 2} hits one of these cases, so the
\* function never ends without returning a date.
C2_DaysSubtractedByWeekday ==
    (ret # Pending /\ arg.days \in {1, 2}) =>
        /\ ret.kind # "none"
        /\ ret = Ok(arg.stock_time
                    - DaysSubtracted[weekday(arg.stock_time) + 1][arg.days])

\* a Tuesday asked for two trading days back: four calendar days
C2_Witness ==
    /\ ret.kind = "ok"
    /\ weekday(arg.stock_time) = 1
    /\ arg.days = 2
    /\ ret.value = arg.stock_time - 4

\* C3: for every shift outside {1, 2} and every weekday the resolver raises
\* the invalid-argument error and returns no date; for a shift in {1, 2} it
\* never raises it.
C3_ShiftOutOfRangeRaises ==
    ret # Pending =>
        /\ arg.days \notin {1, 2} => ret = Raise("ValueError")
        /\ arg.days \in {1, 2} => ret.kind # "raise"

\* shifts of 0, of 3 and a negative one have been refused
C3_Witness ==
    /\ ret = Raise("ValueError")
    /\ arg.days \in {0, 3, -1}

-----------------------------------------------------------------------------
(* Claim about the percentage change, under SpecDifference.                *)

\* round((closeYesterday - closeTwoDaysAgo) * 100 / closeYesterday, 2): one
\* rounding of the exact quotient, closes in units of 1/10000
SingleRounding(yesterday_close, two_days_ago_close) ==
    Float2(yesterday_close < two_days_ago_close,
           RoundHalfEven((yesterday_close - two_days_ago_close) * 10000,
                         yesterday_close))

\* C4: for every pair of closes with closeYesterday # 0 the value returned
\* is round((closeYesterday - closeTwoDaysAgo) * 100 / closeYesterday, 2),
\* a single rounding of the exact quotient with no intermediate rounding of
\* the price difference.
C4_SingleRounding ==
    (ret # Pending /\ float(arg.yesterday_close) # 0) =>
        ret = Ok(SingleRounding(float(arg.yesterday_close),
                                float(arg.two_days_ago_close)))

-----------------------------------------------------------------------------
(* Claims about create_sms, under SpecSms.                                 *)

IsPrefix(p, s) == Len(p) <= Len(s) /\ SubSeq(s, 1, Len(p)) = p

\* the text before the first newline
FirstLine(s) ==
    LET nl == {k \in 1..Len(s) : s[k] = "\n"}
    IN  IF nl = {} THEN s ELSE SubSeq(s, 1, Min(nl) - 1)

\* C6: the first line of the message is "{company}: {arrow}{change}%", the
\* arrow being the up arrow if and only if change > 0 and the down arrow
\* otherwise, so for change = 0 and for every negative change; 2.07 gives
\* "U+1F53A 2.07%" and -1.5 gives "U+1F53B -1.5%".
C6_HeaderLine ==
    ret # Pending =>
        LET change == arg.stock_difference
            up == ~change.neg /\ change.mag > 0
            rest == SubSeq(FirstLine(ret.value), Len(arg.company_name) + 3,
                           Len(FirstLine(ret.value)))
        IN  /\ FirstLine(ret.value) =
                  arg.company_name \o <<":", " ">>
                  \o <<IF up THEN UpArrow ELSE DownArrow>>
                  \o FloatStr(change) \o <<"%">>
            /\ (~change.neg /\ change.mag = 207) =>
                  rest = <<UpArrow, "2", ".", "0", "7", "%">>
            /\ (change.neg /\ change.mag = 150) =>
                  rest = <<DownArrow, "-", "1", ".", "5", "%">>

\* a change of 0.0 was composed with the down arrow
C6_Witness ==
    /\ ret.kind = "ok"
    /\ arg.stock_difference = Float2(FALSE, 0)
    /\ ret.value[Len(arg.company_name) + 3] = DownArrow

HeadlinePart(h) == <<"H", "e", "a", "d", "l", "i", "n", "e", ":", " ">> \o h.title \o <<"\n">>

LinkPart(h) == <<"L", "i", "n", "k", ":", " ">> \o h.url \o <<"\n", "\n">>

RECURSIVE Briefs(_, _)
\* the "Brief:" lines of the article blocks that text is made of, found
\* between each headline and the link that follows it
Briefs(text, highlights) ==
    IF highlights = <<>> THEN <<>>
    ELSE LET h == Head(highlights)
             body == SubSeq(text, Len(HeadlinePart(h)) + 1, Len(text))
             e == Min({k \in 0..Len(body) :
                          IsPrefix(LinkPart(h), SubSeq(body, k + 1, Len(body)))})
         IN  <<SubSeq(body, 1, e)>>
             \o Briefs(SubSeq(body, e + Len(LinkPart(h)) + 1, Len(body)),
                       Tail(highlights))

\* a '<' followed later by a '>'
HasMarkup(s) == \E p \in 1..Len(s) : \E q \in (p + 1)..Len(s) : s[p] = "<" /\ s[q] = ">"

\* C9: for every description, newlines included, the "Brief:" line composed
\* for the article contains no markup: no '<' followed later by a '>'
\* remains in it.
C9_NoMarkupInBrief ==
    ret # Pending =>
        LET blocks == SubSeq(ret.value, Len(FirstLine(ret.value)) + 3, Len(ret.value))
            briefs == Briefs(blocks, arg.stock_highlights)
        IN  \A k \in 1..Len(briefs) : ~HasMarkup(briefs[k])

-----------------------------------------------------------------------------
(* Claim about send_message, under SpecSend.                               *)

\* C7: send_message("") makes no call to the SMS provider: no client is
\* created, no message submitted, nothing logged; with a non-empty string
\* it submits exactly one message, whose body is that string.
C7_EmptyMessageNotSent ==
    ret # Pending =>
        IF arg.message = <<>>
        THEN clients = 0 /\ requested = <<>> /\ delivered = <<>> /\ stdout = <<>>
        ELSE requested = <<arg.message>>

\* send_message("") has returned without a call to the SMS provider
C7_Witness ==
    /\ ret = ReturnsNone
    /\ arg.message = <<>>
    /\ requested = <<>>

-----------------------------------------------------------------------------
(* Claims about a run of main, under Spec.                                 *)

Running == {"get_stock_difference", "get_news", "create_sms", "send_message"}

\* whether message is the SMS of the k-th pair of the watchlist
IsSmsOf(message, k) == IsPrefix(watchlist[k][2] \o <<":", " ">>, message)

\* C5: if any step for symbol i fails (HTTP status of the price or news
\* fetch, a resolved date missing from the series, an error of the SMS
\* provider) the run aborts there: no SMS is sent for symbol i or a later
\* one, no later step runs, and the SMS sent for the symbols before i stay
\* as they are.
C5_FailureAbortsRun ==
    /\ exc # "none" =>
          /\ pc = "raised"
          /\ ~ENABLED Next
          /\ Len(delivered) = i - 1
          /\ \A k \in 1..Len(delivered) : IsSmsOf(delivered[k], k)
    /\ Len(requested) # Len(delivered) => exc = "TwilioRestException"
    /\ pc \in Running => (exc = "none" /\ Len(delivered) = i - 1)
    /\ pc = "done" => (exc = "none" /\ Len(delivered) = Len(watchlist))

\* the run was aborted at the third symbol by a date missing from the
\* series, after two SMS had been sent
C5_Witness ==
    /\ exc = "KeyError"
    /\ i = 3
    /\ Len(delivered) = 2

\* C10: the symbols for which an SMS was submitted are a prefix of the
\* watchlist, in its order, with one SMS each; create_sms never returns the
\* empty message, so send_message never skips inside a run; the steps of
\* symbol i + 1 start only after the SMS of symbol i was submitted, and a
\* run without failure submits one SMS for every symbol.
C10_SmsArePrefixOfWatchlist ==
    /\ Len(requested) <= Len(watchlist)
    /\ \A k \in 1..Len(requested) : IsSmsOf(requested[k], k)
    /\ clients = Len(requested)
    /\ pc = "send_message" => sms # <<>>
    /\ pc \in Running => (Len(requested) = i - 1 /\ delivered = requested)
    /\ pc = "done" => (Len(requested) = Len(watchlist) /\ delivered = requested)

\* a run has ended with one SMS for each of the five symbols
C10_Witness ==
    /\ pc = "done"
    /\ Len(delivered) = 5
    /\ IsSmsOf(delivered[5], 5)

\* the number of article blocks of a message
CountBlocks(message) ==
    Cardinality({k \in 1..Len(message) :
        IsPrefix(<<"H", "e", "a", "d", "l", "i", "n", "e", ":", " ">>, SubSeq(message, k, Len(message)))})

\* the first iteration (TSLA, Tesla Inc) of a run made on a Monday; the
\* series then holds 102 for that Monday, 100 for the Friday and 98 for the
\* Thursday before it
MondayRun == weekday(now) = 0

=============================================================================
